---------------------------- MODULE Spec2Model ----------------------------
(***************************************************************************)
(* A model of lec4/structured.cpp: the three loops over a vector<int>      *)
(* (sum_evens_structured, sum_evens_non_structured and the filtering loop  *)
(* of main), each stepped statement by statement.  A caller builds one     *)
(* input sequence and invokes the operations on it one at a time, in any   *)
(* order, each at most once; main's loop may then be run a second time on  *)
(* its own output.                                                         *)
(*                                                                         *)
(* int is a two's-complement integer of IntBits bits.  Signed overflow of  *)
(* `sum += data[i]` is undefined behaviour: the build either wraps modulo  *)
(* 2^IntBits (the default code generation) or traps and aborts the process *)
(* (-ftrapv, the sanitizers).  Which of the two is fixed per build by      *)
(* `policy`.  Vector lengths stay below IntMax, so `int i` itself never    *)
(* overflows.                                                              *)
(***************************************************************************)
EXTENDS Integers, Sequences, FiniteSets, TLC

\* ------------------------------------------------------------- bounds
\* Longest enumerated input sequence.
MaxLen == 3
\* Width of int in bits (the code's int is 32 bits wide; the arithmetic is
\* the same at every width, and the model keeps the width small).
IntBits == 6

\* ------------------------------------------------------------ int type
Modulus == 2 ^ IntBits
IntMax == 2 ^ (IntBits - 1) - 1
IntMin == -(2 ^ (IntBits - 1))
IntRange == IntMin .. IntMax

\* The value a wrapping build stores for the exact result v.
Wrap(v) == ((v - IntMin) % Modulus) + IntMin

\* C++ `a % b` for b > 0: the remainder truncates toward zero and takes the
\* sign of the dividend.
CRem(a, b) == IF a >= 0 THEN a % b ELSE -((-a) % b)

\* vector<int>::operator[] with a zero-based index.
At(v, idx) == v[idx + 1]

\* Variant of is_even: the parity test written as x % 2 != 1.
is_even_ne1(x) == CRem(x, 2) # 1

\* bool is_even(int x) { return x % 2 == 0; }
is_even(x) == CRem(x, 2) = 0

\* ------------------------------------------------------------- inputs
\* Element values the inputs are drawn from: both signs and both parities,
\* and the extremes of int whose sums overflow.
Values == {IntMin, -3, -2, 1, 2, IntMax - 1}

RECURSIVE SeqsUpTo(_)
SeqsUpTo(n) ==
  IF n = 0 THEN {<< >>}
  ELSE LET shorter == SeqsUpTo(n - 1)
       IN shorter \cup {Append(s, v) : s \in {t \in shorter : Len(t) = n - 1}, v \in Values}

\* The vector main builds, and the other concrete inputs of the specification.
MainNumbers == <<1, 2, 3, 4, 5, 6, 7, 8, 9, 10>>
Descending == <<5, 4, 3, 2, 1>>
Negatives == <<-4, -3, -2, -1, 0>>
Inputs == SeqsUpTo(MaxLen) \cup {MainNumbers, Descending, Negatives}

VARIABLES
  policy,       \* the build's treatment of signed overflow: "wrap" or "trap"
  data,         \* the caller's input sequence (const vector<int> &data)
  cout,         \* what has been written to standard output
  is_even_ret,  \* the value the last call of is_even returned
  pcS, s_i, s_sum, seenS,            \* sum_evens_structured: position, i, sum
  pcN, n_i, n_sum, seenN,            \* sum_evens_non_structured: position, i, sum
  pcM, numbers, m_i, evenNumbers, seenM,  \* main: position, numbers, i, evenNumbers
  round         \* 1: main filters the caller's input; 2: it filters its own output

\* seenS, seenN and seenM record, in order, the indices at which each loop
\* has read an element of its current input for its parity test.

vars == <<policy, data, cout, is_even_ret, pcS, s_i, s_sum, seenS,
          pcN, n_i, n_sum, seenN, pcM, numbers, m_i, evenNumbers, seenM, round>>
varsS == <<pcS, s_i, s_sum, seenS>>
varsN == <<pcN, n_i, n_sum, seenN>>
varsM == <<pcM, numbers, m_i, evenNumbers, seenM, round>>
env == <<policy, data>>

Init ==
  /\ policy \in {"wrap", "trap"}
  /\ data \in Inputs
  /\ cout = << >>
  /\ is_even_ret = FALSE
  /\ pcS = "idle" /\ s_i = 0 /\ s_sum = 0 /\ seenS = << >>
  /\ pcN = "idle" /\ n_i = 0 /\ n_sum = 0 /\ seenN = << >>
  /\ pcM = "idle" /\ numbers = data /\ m_i = 0 /\ evenNumbers = << >> /\ seenM = << >>
  /\ round = 1

\* No operation is in progress and the process has not aborted.
Resting(pc) == pc \in {"idle", "done"}
CallerIdle == Resting(pcS) /\ Resting(pcN) /\ Resting(pcM)

\* `Total: <sum>` followed by endl.
TotalLine(sum) == [label |-> "Total: ", values |-> <<sum>>]
\* `Even numbers: ` followed by every element of v, each with a space.
EvenLine(v) == [label |-> "Even numbers: ", values |-> v]

\* `sum += x` on int.  An exact result outside int is signed overflow: a
\* wrapping build stores the result modulo 2^IntBits, a trapping build aborts.
PlusEq(sum, x) ==
  IF sum + x \in IntRange THEN [sum |-> sum + x, trap |-> FALSE]
  ELSE IF policy = "wrap" THEN [sum |-> Wrap(sum + x), trap |-> FALSE]
  ELSE [sum |-> sum, trap |-> TRUE]

\* --------------------------------------------- sum_evens_structured
\* Variant of S_Call: the for-init starts at i = 1.
S_Call_from1 ==
  /\ CallerIdle /\ pcS = "idle"
  /\ s_sum' = 0 /\ s_i' = 1 /\ seenS' = << >>
  /\ pcS' = "for_cond"
  /\ UNCHANGED <<env, cout, is_even_ret, varsN, varsM>>

\* The caller enters the function: int sum = 0; and the for-init int i = 0.
S_Call ==
  /\ CallerIdle /\ pcS = "idle"
  /\ s_sum' = 0 /\ s_i' = 0 /\ seenS' = << >>
  /\ pcS' = "for_cond"
  /\ UNCHANGED <<env, cout, is_even_ret, varsN, varsM>>

\* for-condition: i < data.size()
S_ForCond ==
  /\ pcS = "for_cond"
  /\ pcS' = IF s_i < Len(data) THEN "if" ELSE "print"
  /\ UNCHANGED <<env, cout, is_even_ret, s_i, s_sum, seenS, varsN, varsM>>

\* if (is_even(data[i]))
S_If ==
  /\ pcS = "if"
  /\ is_even_ret' = is_even(At(data, s_i))
  /\ seenS' = Append(seenS, s_i)
  /\ pcS' = IF is_even(At(data, s_i)) THEN "add" ELSE "incr"
  /\ UNCHANGED <<env, cout, s_i, s_sum, varsN, varsM>>

\* Variant of S_Add: sum = data[i] in place of sum += data[i].
S_Add_assign ==
  /\ pcS = "add"
  /\ s_sum' = At(data, s_i)
  /\ pcS' = "incr"
  /\ UNCHANGED <<env, cout, is_even_ret, s_i, seenS, varsN, varsM>>

\* sum += data[i];
S_Add ==
  /\ pcS = "add"
  /\ LET r == PlusEq(s_sum, At(data, s_i))
     IN /\ s_sum' = r.sum
        /\ pcS' = IF r.trap THEN "aborted" ELSE "incr"
  /\ UNCHANGED <<env, cout, is_even_ret, s_i, seenS, varsN, varsM>>

\* for-increment: i++
S_Incr ==
  /\ pcS = "incr"
  /\ s_i' = s_i + 1
  /\ pcS' = "for_cond"
  /\ UNCHANGED <<env, cout, is_even_ret, s_sum, seenS, varsN, varsM>>

\* cout << "Total: " << sum << endl; and the return
S_Print ==
  /\ pcS = "print"
  /\ cout' = Append(cout, TotalLine(s_sum))
  /\ pcS' = "done"
  /\ UNCHANGED <<env, is_even_ret, s_i, s_sum, seenS, varsN, varsM>>

sum_evens_structured ==
  S_Call \/ S_ForCond \/ S_If \/ S_Add \/ S_Incr \/ S_Print

\* ----------------------------------------- sum_evens_non_structured
\* The caller enters the function: int sum = 0; int i = 0;
N_Call ==
  /\ CallerIdle /\ pcN = "idle"
  /\ n_sum' = 0 /\ n_i' = 0 /\ seenN' = << >>
  /\ pcN' = "loop_start"
  /\ UNCHANGED <<env, cout, is_even_ret, varsS, varsM>>

\* Variant of N_loop_start: the guard written as i > data.size().
N_loop_start_gt ==
  /\ pcN = "loop_start"
  /\ pcN' = IF n_i > Len(data) THEN "loop_end" ELSE "test"
  /\ UNCHANGED <<env, cout, is_even_ret, n_i, n_sum, seenN, varsS, varsM>>

\* loop_start: if (i >= data.size()) goto loop_end;
N_loop_start ==
  /\ pcN = "loop_start"
  /\ pcN' = IF n_i >= Len(data) THEN "loop_end" ELSE "test"
  /\ UNCHANGED <<env, cout, is_even_ret, n_i, n_sum, seenN, varsS, varsM>>

\* Variant of N_test: the odd test written as data[i] % 2 == 1.
N_test_eq1 ==
  /\ pcN = "test"
  /\ seenN' = Append(seenN, n_i)
  /\ pcN' = IF CRem(At(data, n_i), 2) = 1 THEN "next_iteration" ELSE "add"
  /\ UNCHANGED <<env, cout, is_even_ret, n_i, n_sum, varsS, varsM>>

\* if (data[i] % 2 != 0) goto next_iteration;
N_test ==
  /\ pcN = "test"
  /\ seenN' = Append(seenN, n_i)
  /\ pcN' = IF CRem(At(data, n_i), 2) # 0 THEN "next_iteration" ELSE "add"
  /\ UNCHANGED <<env, cout, is_even_ret, n_i, n_sum, varsS, varsM>>

\* Variant of N_add: sum = data[i] in place of sum += data[i].
N_add_assign ==
  /\ pcN = "add"
  /\ n_sum' = At(data, n_i)
  /\ pcN' = "next_iteration"
  /\ UNCHANGED <<env, cout, is_even_ret, n_i, seenN, varsS, varsM>>

\* sum += data[i];
N_add ==
  /\ pcN = "add"
  /\ LET r == PlusEq(n_sum, At(data, n_i))
     IN /\ n_sum' = r.sum
        /\ pcN' = IF r.trap THEN "aborted" ELSE "next_iteration"
  /\ UNCHANGED <<env, cout, is_even_ret, n_i, seenN, varsS, varsM>>

\* Variant of N_next_iteration: i advances by two.
N_next_iteration_by2 ==
  /\ pcN = "next_iteration"
  /\ n_i' = n_i + 2
  /\ pcN' = "loop_start"
  /\ UNCHANGED <<env, cout, is_even_ret, n_sum, seenN, varsS, varsM>>

\* next_iteration: i++; goto loop_start;
N_next_iteration ==
  /\ pcN = "next_iteration"
  /\ n_i' = n_i + 1
  /\ pcN' = "loop_start"
  /\ UNCHANGED <<env, cout, is_even_ret, n_sum, seenN, varsS, varsM>>

\* loop_end: cout << "Total: " << sum << endl; and the return
N_loop_end ==
  /\ pcN = "loop_end"
  /\ cout' = Append(cout, TotalLine(n_sum))
  /\ pcN' = "done"
  /\ UNCHANGED <<env, is_even_ret, n_i, n_sum, seenN, varsS, varsM>>

sum_evens_non_structured ==
  N_Call \/ N_loop_start \/ N_test \/ N_add \/ N_next_iteration \/ N_loop_end

\* ---------------------------------------------------------------- main
\* vector<int> evenNumbers; and the for-init int i = 0 (numbers is built
\* by the caller of the loop).
M_Call ==
  /\ CallerIdle /\ pcM = "idle"
  /\ evenNumbers' = << >> /\ m_i' = 0 /\ seenM' = << >>
  /\ pcM' = "for_cond"
  /\ UNCHANGED <<env, cout, is_even_ret, varsS, varsN, numbers, round>>

\* for-condition: i < numbers.size()
M_ForCond ==
  /\ pcM = "for_cond"
  /\ pcM' = IF m_i < Len(numbers) THEN "if" ELSE "print"
  /\ UNCHANGED <<env, cout, is_even_ret, varsS, varsN, numbers, m_i, evenNumbers, seenM, round>>

\* if (numbers[i] % 2 == 0)
M_If ==
  /\ pcM = "if"
  /\ seenM' = Append(seenM, m_i)
  /\ pcM' = IF CRem(At(numbers, m_i), 2) = 0 THEN "push" ELSE "incr"
  /\ UNCHANGED <<env, cout, is_even_ret, varsS, varsN, numbers, m_i, evenNumbers, round>>

\* Variant of M_Push: the element is inserted at the front.
M_Push_front ==
  /\ pcM = "push"
  /\ evenNumbers' = <<At(numbers, m_i)>> \o evenNumbers
  /\ pcM' = "incr"
  /\ UNCHANGED <<env, cout, is_even_ret, varsS, varsN, numbers, m_i, seenM, round>>

\* Variant of M_Push: the index is pushed in place of the element.
M_Push_index ==
  /\ pcM = "push"
  /\ evenNumbers' = Append(evenNumbers, m_i)
  /\ pcM' = "incr"
  /\ UNCHANGED <<env, cout, is_even_ret, varsS, varsN, numbers, m_i, seenM, round>>

\* Variant of M_Push: the element copied out is zeroed in numbers.
M_Push_clobber ==
  /\ pcM = "push"
  /\ evenNumbers' = Append(evenNumbers, At(numbers, m_i))
  /\ numbers' = [numbers EXCEPT ![m_i + 1] = 0]
  /\ pcM' = "incr"
  /\ UNCHANGED <<env, cout, is_even_ret, varsS, varsN, m_i, seenM, round>>

\* evenNumbers.push_back(numbers[i]);
M_Push ==
  /\ pcM = "push"
  /\ evenNumbers' = Append(evenNumbers, At(numbers, m_i))
  /\ pcM' = "incr"
  /\ UNCHANGED <<env, cout, is_even_ret, varsS, varsN, numbers, m_i, seenM, round>>

\* for-increment: ++i
M_Incr ==
  /\ pcM = "incr"
  /\ m_i' = m_i + 1
  /\ pcM' = "for_cond"
  /\ UNCHANGED <<env, cout, is_even_ret, varsS, varsN, numbers, evenNumbers, seenM, round>>

\* cout << "Even numbers: "; the range-for printing every n; return 0;
M_Print ==
  /\ pcM = "print"
  /\ cout' = Append(cout, EvenLine(evenNumbers))
  /\ pcM' = "done"
  /\ UNCHANGED <<env, is_even_ret, varsS, varsN, numbers, m_i, evenNumbers, seenM, round>>

\* The filtering loop is run again with its own output as numbers.
M_Refilter ==
  /\ CallerIdle /\ pcM = "done" /\ round = 1
  /\ numbers' = evenNumbers
  /\ seenM' = << >>
  /\ round' = 2
  /\ pcM' = "idle"
  /\ UNCHANGED <<env, cout, is_even_ret, varsS, varsN, m_i, evenNumbers>>

main ==
  M_Call \/ M_ForCond \/ M_If \/ M_Push \/ M_Incr \/ M_Print \/ M_Refilter

\* ------------------------------------------------------- specification
Next == sum_evens_structured \/ sum_evens_non_structured \/ main

Spec == Init /\ [][Next]_vars

\* A sequential program that can take a step takes it.
FairSpec == Spec /\ WF_vars(Next)

\* ------------------------------------------- reference definitions
\* x is a multiple of two.
MathEven(x) == 2 * (x \div 2) = x

\* The exact (unbounded) sum of the elements of s.
RECURSIVE SeqSum(_)
SeqSum(s) == IF s = << >> THEN 0 ELSE Head(s) + SeqSum(Tail(s))

\* The exact sum of s[k] over the positions k in I.
RECURSIVE SumAt(_, _)
SumAt(s, I) ==
  IF I = {} THEN 0
  ELSE LET k == CHOOSE j \in I : TRUE IN s[k] + SumAt(s, I \ {k})

\* The exact sum of the even elements of s, one term per occurrence.
SumOfEvens(s) == SumAt(s, {k \in 1 .. Len(s) : MathEven(s[k])})

\* The first k elements of s.
Prefix(s, k) == SubSeq(s, 1, k)

\* Summing the even elements of s from left to right never leaves int.
NoOverflow(s) == \A k \in 0 .. Len(s) : SumOfEvens(Prefix(s, k)) \in IntRange

\* The indices 0, 1, ..., n-1 in increasing order.
Indices(n) == [k \in 1 .. n |-> k - 1]

HasOdd(s) == \E k \in 1 .. Len(s) : ~MathEven(s[k])
HasEven(s) == \E k \in 1 .. Len(s) : MathEven(s[k])

\* ------------------------------------------------------------------ C1
\* C1 as stated: for every input, the final sum of sum_evens_structured is
\* the exact sum of the even elements of data.
C1_Original == pcS = "done" => s_sum = SumOfEvens(data)

\* C1, amended: for every input whose even elements sum from left to right
\* without leaving int, the final sum of sum_evens_structured is the exact
\* sum of the even elements of data, one term per occurrence, odd elements
\* contributing nothing; it is 0 for the empty sequence and 30 for
\* [1,2,...,10].
C1_SumEvens ==
  /\ (pcS = "done" /\ NoOverflow(data)) => s_sum = SumOfEvens(data)
  /\ (pcS = "done" /\ data = << >>) => s_sum = 0
  /\ (pcS = "done" /\ data = MainNumbers) => s_sum = 30

\* A finished run over an input with an odd element and an even value that
\* occurs twice.
C1_Witness ==
  /\ pcS = "done" /\ NoOverflow(data) /\ HasOdd(data)
  /\ \E j, k \in 1 .. Len(data) : j < k /\ data[j] = data[k] /\ data[j] = 2
  /\ s_sum = 4

\* ------------------------------------------------------------------ C2
\* C2: when main's loop has finished, evenNumbers is the subsequence of the
\* even elements of numbers, in order and with multiplicity; every element
\* of it is even; [5,4,3,2,1] gives [4,2] and [] gives [].
C2_FilterEvens ==
  /\ pcM \in {"print", "done"} =>
       /\ evenNumbers = SelectSeq(numbers, MathEven)
       /\ \A k \in 1 .. Len(evenNumbers) : MathEven(evenNumbers[k])
  /\ (pcM = "done" /\ numbers = Descending) => evenNumbers = <<4, 2>>
  /\ (pcM = "done" /\ numbers = << >>) => evenNumbers = << >>

C2_Witness ==
  pcM = "done" /\ round = 1 /\ numbers = Descending /\ evenNumbers = <<4, 2>>

\* ------------------------------------------------------------------ C3
\* C3 as stated: for every input, the total of the summing loop equals the
\* sum of the vector the filtering loop builds from the same input.
C3_Original ==
  (pcS = "done" /\ pcM = "done" /\ round = 1) => s_sum = SeqSum(evenNumbers)

\* C3, amended: for every input whose even elements sum from left to right
\* without leaving int, the total of the summing loop equals the sum of the
\* vector the filtering loop builds from the same input.
C3_SumOfFilter ==
  (pcS = "done" /\ pcM = "done" /\ round = 1 /\ NoOverflow(data))
    => s_sum = SeqSum(evenNumbers)

C3_Witness ==
  /\ pcS = "done" /\ pcM = "done" /\ round = 1 /\ NoOverflow(data)
  /\ HasOdd(data) /\ Len(evenNumbers) >= 2 /\ s_sum # 0

\* ------------------------------------------------------------------ C4
\* Over every value of int: is_even is true exactly for the multiples of
\* two, and the remainder it tests is -1, 0 or 1 with the sign of x.
IsEvenOnEveryInt ==
  /\ \A x \in IntRange :
       /\ is_even(x) <=> MathEven(x)
       /\ CRem(x, 2) \in {-1, 0, 1}
       /\ (x < 0 => CRem(x, 2) <= 0) /\ (x > 0 => CRem(x, 2) >= 0)
  /\ CRem(-3, 2) = -1 /\ CRem(-1, 2) = -1
  /\ is_even(-4) /\ is_even(-2) /\ is_even(0) /\ ~is_even(-3) /\ ~is_even(-1)

\* C4: is_even(x) is true exactly for the multiples of two, negatives and
\* zero included, because the remainder truncates toward zero (-3 and -1
\* leave -1); each call in the loop returns that; [-4,-3,-2,-1,0] filters
\* to [-4,-2,0] and sums to -6.
C4_IsEven ==
  /\ IsEvenOnEveryInt
  /\ pcS \in {"add", "incr"} => (is_even_ret <=> MathEven(At(data, s_i)))
  /\ (data = Negatives /\ pcM = "done") => evenNumbers = <<-4, -2, 0>>
  /\ (data = Negatives /\ pcS = "done") => s_sum = -6

C4_Witness ==
  /\ data = Negatives /\ pcS = "done" /\ pcM = "done"
  /\ s_sum = -6 /\ evenNumbers = <<-4, -2, 0>>

\* ------------------------------------------------------------------ C5
\* C5: on the same input and the same build the two summing functions end
\* with the same total, having read the same indices; and one of them is
\* stopped by an overflow trap only on inputs on which the other is too.
C5_SameTotal ==
  /\ (pcS = "done" /\ pcN = "done") =>
       (s_sum = n_sum /\ s_i = n_i /\ seenS = seenN)
  /\ (pcS = "aborted" \/ pcN = "aborted") =>
       (policy = "trap" /\ ~NoOverflow(data))
  /\ ((pcS = "done" \/ pcN = "done") /\ policy = "trap") => NoOverflow(data)

\* Both have finished on an input with a negative odd element whose even
\* elements overflow.
C5_Witness ==
  /\ pcS = "done" /\ pcN = "done" /\ ~NoOverflow(data)
  /\ \E k \in 1 .. Len(data) : data[k] = -3

\* ------------------------------------------------------------------ C6
\* One pass, as far as a finite run shows it: the indices a loop has read
\* are 0, 1, 2, ... in increasing order with none repeated; at the loop
\* head every index below i has been read and at the increment the index i
\* too; at the end all of 0..n-1 have been read.
OnePassS ==
  /\ seenS = Indices(Len(seenS))
  /\ pcS \in {"for_cond", "if"} => Len(seenS) = s_i
  /\ pcS \in {"add", "incr"} => Len(seenS) = s_i + 1
  /\ pcS \in {"print", "done"} => seenS = Indices(Len(data))
OnePassN ==
  /\ seenN = Indices(Len(seenN))
  /\ pcN \in {"loop_start", "test"} => Len(seenN) = n_i
  /\ pcN \in {"add", "next_iteration"} => Len(seenN) = n_i + 1
  /\ pcN \in {"loop_end", "done"} => seenN = Indices(Len(data))
OnePassM ==
  /\ seenM = Indices(Len(seenM))
  /\ pcM \in {"for_cond", "if"} => Len(seenM) = m_i
  /\ pcM \in {"push", "incr"} => Len(seenM) = m_i + 1
  /\ pcM \in {"print", "done"} => seenM = Indices(Len(numbers))

\* i changes only at the increment of its loop, by exactly one, and the
\* increment is the one step that leaves next_iteration (or the for-increment).
OneIncrement ==
  /\ (n_i' # n_i \/ pcN = "next_iteration") => (pcN = "next_iteration" /\ n_i' = n_i + 1)
  /\ (s_i' # s_i \/ pcS = "incr") => (pcS = "incr" /\ s_i' = s_i + 1)
  /\ (m_i' # m_i \/ pcM = "incr") => (pcM \in {"incr", "idle"} /\ m_i' = IF pcM = "idle" THEN 0 ELSE m_i + 1)

C7_Idempotent == (round = 2 /\ pcM = "done") => evenNumbers = numbers

\* The second run has finished, and the first run had dropped an element
\* and kept at least two.
C7_Witness ==
  /\ round = 2 /\ pcM = "done"
  /\ Len(numbers) >= 2 /\ Len(data) > Len(numbers)

\* ------------------------------------------------------------------ C8
\* C8: no step of any operation changes data, and no step of main's loop
\* changes numbers, which during the first run is the caller's input; the
\* steps change only sum, i, the output vector and the output stream.
C8_InputUnchanged ==
  /\ [](round = 1 => numbers = data)
  /\ [][/\ data' = data
        /\ (pcM \notin {"idle", "done"}) => numbers' = numbers]_vars

\* All three operations have finished on a non-empty input with an output.
C8_Witness ==
  /\ pcS = "done" /\ pcN = "done" /\ pcM = "done" /\ round = 1
  /\ numbers = data /\ Len(evenNumbers) >= 1 /\ HasOdd(data)

\* ------------------------------------------------------------------ C9
\* C9 as stated: at each loop head 0 <= i <= size, and sum is the exact sum
\* of the even elements of the prefix data[0..i-1]; at the head of main's
\* loop evenNumbers is the filter of the prefix numbers[0..i-1].
C9_Original ==
  /\ pcS = "for_cond" =>
       (s_i \in 0 .. Len(data) /\ s_sum = SumOfEvens(Prefix(data, s_i)))
  /\ pcN = "loop_start" =>
       (n_i \in 0 .. Len(data) /\ n_sum = SumOfEvens(Prefix(data, n_i)))
  /\ pcM = "for_cond" =>
       (m_i \in 0 .. Len(numbers) /\ evenNumbers = SelectSeq(Prefix(numbers, m_i), MathEven))

\* C9, amended: at each loop head 0 <= i <= size; sum is the exact sum of
\* the even elements of the prefix data[0..i-1] whenever the even elements
\* of that prefix sum from left to right without leaving int; at the head of
\* main's loop evenNumbers is the filter of the prefix numbers[0..i-1].
C9_LoopInvariant ==
  /\ pcS = "for_cond" =>
       /\ s_i \in 0 .. Len(data)
       /\ NoOverflow(Prefix(data, s_i)) => s_sum = SumOfEvens(Prefix(data, s_i))
  /\ pcN = "loop_start" =>
       /\ n_i \in 0 .. Len(data)
       /\ NoOverflow(Prefix(data, n_i)) => n_sum = SumOfEvens(Prefix(data, n_i))
  /\ pcM = "for_cond" =>
       (m_i \in 0 .. Len(numbers) /\ evenNumbers = SelectSeq(Prefix(numbers, m_i), MathEven))

\* The goto loop is back at its head in mid-sequence with two even elements
\* summed.
C9_Witness ==
  /\ pcN = "loop_start" /\ n_i = 2 /\ Len(data) > 2
  /\ MathEven(data[1]) /\ MathEven(data[2])
  /\ NoOverflow(Prefix(data, n_i)) /\ n_sum = data[1] + data[2] /\ n_sum # 0

\* ----------------------------------------------------------------- C10
\* C10: wherever a loop is about to read data[i] or numbers[i], 0 <= i <
\* size; every index read so far was in range; the goto loop comes to its
\* test only from loop_start with the guard false, and to its addition only
\* from the test; over the empty sequence nothing is read.
C10_BoundsSafe ==
  /\ [](/\ pcS \in {"if", "add"} => s_i \in 0 .. Len(data) - 1
        /\ pcN \in {"test", "add"} => n_i \in 0 .. Len(data) - 1
        /\ pcM \in {"if", "push"} => m_i \in 0 .. Len(numbers) - 1
        /\ \A k \in 1 .. Len(seenS) : seenS[k] \in 0 .. Len(data) - 1
        /\ \A k \in 1 .. Len(seenN) : seenN[k] \in 0 .. Len(data) - 1
        /\ \A k \in 1 .. Len(seenM) : seenM[k] \in 0 .. Len(numbers) - 1
        /\ data = << >> => (seenS = << >> /\ seenN = << >>)
        /\ numbers = << >> => seenM = << >>)
  /\ [][/\ (pcN' = "test" /\ pcN # "test") => (pcN = "loop_start" /\ ~(n_i >= Len(data)))
        /\ (pcN' = "add" /\ pcN # "add") => pcN = "test"]_vars

\* The goto loop is about to add the last element of a longest input.
C10_Witness ==
  pcN = "add" /\ Len(data) >= 3 /\ n_i = Len(data) - 1

=============================================================================
